---- MODULE Spec2Model ----
(***************************************************************************)
(* guacd connection routing (src/src/guacd/connection.c) and the client    *)
(* session's user list and teardown (src/src/libguac/client.c).            *)
(*                                                                         *)
(* Spec        : router workers, one per accepted connection, sharing the  *)
(*               process registry and the spawned backends.                *)
(* SpecSession : one client session, its user list and its handlers.       *)
(***************************************************************************)
EXTENDS Integers, Sequences, FiniteSets, TLC

\* Number of connection threads (one per accepted inbound connection).
NumWorkers == 2

\* Largest number of backends already registered in the map handed to the
\* connection threads.
MaxExisting == 1

\* The C null pointer (also "no process", "no user").
NULL == 0

\* First character of every connection identifier.
GUAC_CLIENT_ID_PREFIX == "$"

Workers == 1..NumWorkers

ProcIds == 1..(MaxExisting + NumWorkers)

\* A character standing for the UUID text of the k-th generated identifier.
UuidText == <<"1", "2", "3", "4", "5", "6", "7", "8", "9">>

\* __guac_generate_connection_id: '$' followed by the text of a fresh UUID.
\* Strings are sequences of characters; the k-th call yields the k-th UUID.
GenerateConnectionId(k) == <<GUAC_CLIENT_ID_PREFIX, UuidText[k]>>

\* Arguments a "select" instruction may carry: the empty string, protocol
\* names (one of them holding '$' after its first character), a bare "$",
\* and the identifier of every backend that exists or may come to exist.
Identifiers ==
    { <<>>, <<"v">>, <<"v", "$">>, <<GUAC_CLIENT_ID_PREFIX>> }
        \cup { GenerateConnectionId(p) : p \in ProcIds }

\* guac_instruction_expect returned NULL (timeout, read error, other opcode).
NoSelect == [argc |-> -1, argv |-> <<>>]

\* What guac_instruction_expect can return: NULL, or a select instruction
\* with zero, one or two arguments.
SelectInputs ==
    { NoSelect }
        \cup { [argc |-> 0, argv |-> <<>>] }
        \cup { [argc |-> 1, argv |-> <<id>>] : id \in Identifiers }
        \cup { [argc |-> 2, argv |-> <<id, <<"x">>>>] :
                   id \in { <<"v">>, GenerateConnectionId(1) } }

\* A slot of the process table that holds no process.
NoProc == [alive |-> FALSE, connection_id |-> <<>>, users |-> 0, fds |-> <<>>]

VARIABLES
    map,       \* guacd_proc_map: set of <<connection id, process>> entries
    procs,     \* guacd_proc records of the spawned backends
    worker,    \* state of each connection thread
    crashed    \* the daemon process was killed by a fault

VARIABLES
    client,    \* the guac_client of one backend session
    user,      \* the guac_user records, by address
    trace,     \* what the most recent call on the session did, in order
    attached,  \* history: users returned by add_user and not yet removed
    unlinked,  \* history: the user the last call unlinked, and its neighbours
    sent_errors \* history: errors sent on the client's socket so far

VARIABLES
    pools,     \* the client's __layer_pool, __buffer_pool and __stream_pool
    layers,    \* index of the guac_layer at each address, 0 where none is
    buffers,   \* the same for the layers allocated as buffers
    output_streams, \* index field of each slot of the client's stream table
    stream_ub,      \* what a write outside the stream table has led to
    result,    \* the most recent allocation or release and what it returned
    thread,     \* each thread's position in the call it is making
    users_lock, \* the thread that holds the client's __users_lock, or NULL
    torn,       \* per user: leave handlers run, unlinks and releases made
    faulted     \* whether an access to released memory has faulted

routerVars == <<map, procs, worker, crashed>>

poolVars == <<pools, layers, buffers, output_streams, stream_ub, result>>

sessionVars == <<client, user, trace, attached, unlinked, sent_errors>>

threadVars == <<thread, users_lock, torn, faulted>>

vars == <<map, procs, worker, crashed,
          client, user, trace, attached, unlinked, sent_errors,
          pools, layers, buffers, output_streams, stream_ub, result,
          thread, users_lock, torn, faulted>>

\* A connection thread before it has run.
NewWorker ==
    [ pc           |-> "start",
      select       |-> NoSelect,
      identifier   |-> <<>>,
      proc         |-> NULL,
      add_user     |-> -1,
      ret          |-> -1,
      socket_freed |-> FALSE,
      fd_closed    |-> FALSE,
      lookups      |-> 0,
      spawns       |-> 0,
      attaches     |-> 0,
      null_deref   |-> FALSE,
      log          |-> <<>>,
      map0         |-> {} ]

\* Mutant of IsConnectionId: the prefix character is looked for anywhere in
\* the identifier instead of at its start.
IsConnectionId_AnyPosition(identifier) ==
    \E i \in 1..Len(identifier) : identifier[i] = GUAC_CLIENT_ID_PREFIX

\* identifier[0] == GUAC_CLIENT_ID_PREFIX; the empty string starts with NUL.
IsConnectionId(identifier) ==
    /\ Len(identifier) > 0
    /\ identifier[1] = GUAC_CLIENT_ID_PREFIX

\* guacd_proc_map_retrieve: the process stored under the identifier, or NULL.
guacd_proc_map_retrieve(m, identifier) ==
    IF \E e \in m : e[1] = identifier
    THEN (CHOOSE e \in m : e[1] = identifier)[2]
    ELSE NULL

\* The map and the backends a connection thread may find when it starts:
\* n backends, each with its owner attached, each registered under its id.
RouterInit ==
    /\ \E n \in 0..MaxExisting :
         /\ procs = [p \in ProcIds |->
                       IF p <= n
                       THEN [alive |-> TRUE,
                             connection_id |-> GenerateConnectionId(p),
                             users |-> 1,
                             fds |-> <<>>]
                       ELSE NoProc]
         /\ map = { <<GenerateConnectionId(p), p>> : p \in 1..n }
    /\ worker = [w \in Workers |-> NewWorker]
    /\ crashed = FALSE

\* Mutant of RouteSelect: the argument count is only tested for being at
\* least one.
RouteSelect_ArgcAtLeastOne(wr, sel, m) ==
    IF sel = NoSelect
    THEN [wr EXCEPT !.select = sel,
                    !.map0 = m,
                    !.log = Append(@, "Error reading select"),
                    !.ret = 1,
                    !.pc = "routed"]
    ELSE IF sel.argc < 1
    THEN [wr EXCEPT !.select = sel,
                    !.map0 = m,
                    !.log = Append(@, "Bad number of arguments to select"),
                    !.ret = 1,
                    !.pc = "routed"]
    ELSE [wr EXCEPT !.select = sel,
                    !.map0 = m,
                    !.identifier = sel.argv[1],
                    !.pc = IF IsConnectionId(sel.argv[1])
                           THEN "retrieve" ELSE "create"]

\* guacd_route_connection up to the classification of the identifier:
\* the select instruction is read, its argument count validated, and
\* argv[0] taken as the identifier.
RouteSelect(wr, sel, m) ==
    IF sel = NoSelect
    THEN [wr EXCEPT !.select = sel,
                    !.map0 = m,
                    !.log = Append(@, "Error reading select"),
                    !.ret = 1,
                    !.pc = "routed"]
    ELSE IF sel.argc # 1
    THEN [wr EXCEPT !.select = sel,
                    !.map0 = m,
                    !.log = Append(@, "Bad number of arguments to select"),
                    !.ret = 1,
                    !.pc = "routed"]
    ELSE [wr EXCEPT !.select = sel,
                    !.map0 = m,
                    !.identifier = sel.argv[1],
                    !.pc = IF IsConnectionId(sel.argv[1])
                           THEN "retrieve" ELSE "create"]

\* guacd_connection_thread opens the socket and guacd_route_connection reads
\* the select instruction.
SelectStep(w) ==
    /\ ~crashed
    /\ worker[w].pc = "start"
    /\ \E sel \in SelectInputs :
         worker' = [worker EXCEPT ![w] = RouteSelect(@, sel, map)]
    /\ UNCHANGED <<map, procs, crashed>>
    /\ UNCHANGED <<sessionVars, poolVars, threadVars>>

\* Mutant of RouteRetrieve: an identifier the registry does not hold falls
\* through to the create branch.
RouteRetrieve_FallThrough(wr, m) ==
    LET proc == guacd_proc_map_retrieve(m, wr.identifier) IN
    IF proc = NULL
    THEN [wr EXCEPT !.proc = NULL,
                    !.lookups = @ + 1,
                    !.log = Append(@, "Connection does not exist"),
                    !.pc = "create"]
    ELSE [wr EXCEPT !.proc = proc,
                    !.lookups = @ + 1,
                    !.log = Append(@, "Joining existing connection"),
                    !.pc = "add_user"]

\* The join branch of guacd_route_connection: the registry lookup, the
\* release of the instruction and the test for a missing process.
RouteRetrieve(wr, m) ==
    LET proc == guacd_proc_map_retrieve(m, wr.identifier) IN
    IF proc = NULL
    THEN [wr EXCEPT !.proc = NULL,
                    !.lookups = @ + 1,
                    !.log = Append(@, "Connection does not exist"),
                    !.ret = 1,
                    !.pc = "routed"]
    ELSE [wr EXCEPT !.proc = proc,
                    !.lookups = @ + 1,
                    !.log = Append(@, "Joining existing connection"),
                    !.pc = "add_user"]

RetrieveStep(w) ==
    /\ ~crashed
    /\ worker[w].pc = "retrieve"
    /\ worker' = [worker EXCEPT ![w] = RouteRetrieve(@, map)]
    /\ UNCHANGED <<map, procs, crashed>>
    /\ UNCHANGED <<sessionVars, poolVars, threadVars>>

\* The process table slot guacd_create_proc fills next.
FreshProc == CHOOSE p \in ProcIds :
                 /\ procs[p] = NoProc
                 /\ \A q \in ProcIds : q < p => procs[q] # NoProc

\* The create branch when guacd_create_proc returned a process: the new
\* backend runs, with a fresh client and connection id and no user yet.
CreateSpawned(w) ==
    /\ procs' = [procs EXCEPT ![FreshProc] =
                    [alive |-> TRUE,
                     connection_id |-> GenerateConnectionId(FreshProc),
                     users |-> 0,
                     fds |-> <<>>]]
    /\ worker' = [worker EXCEPT ![w] =
                    [@ EXCEPT !.proc = FreshProc,
                              !.spawns = @ + 1,
                              !.log = @ \o <<"Creating new client",
                                             "Connection ID is">>,
                              !.pc = "add_user"]]
    /\ UNCHANGED <<map, crashed>>
    /\ UNCHANGED <<sessionVars, poolVars, threadVars>>

\* The create branch when guacd_create_proc returned NULL: the connection id
\* is read through the null process pointer before the pointer is tested.
\* The read either faults, which kills the daemon, or yields garbage, after
\* which the NULL test returns 1.
CreateFailed(w) ==
    \E fault \in BOOLEAN :
        /\ worker' = [worker EXCEPT ![w] =
                        IF fault
                        THEN [@ EXCEPT !.proc = NULL,
                                       !.spawns = @ + 1,
                                       !.null_deref = TRUE,
                                       !.log = Append(@, "Creating new client"),
                                       !.pc = "crashed"]
                        ELSE [@ EXCEPT !.proc = NULL,
                                       !.spawns = @ + 1,
                                       !.null_deref = TRUE,
                                       !.log = @ \o <<"Creating new client",
                                                      "Connection ID is">>,
                                       !.ret = 1,
                                       !.pc = "routed"]]
        /\ crashed' = fault
        /\ UNCHANGED <<map, procs>>
        /\ UNCHANGED <<sessionVars, poolVars, threadVars>>

CreateStep(w) ==
    /\ ~crashed
    /\ worker[w].pc = "create"
    /\ \/ CreateSpawned(w)
       \/ CreateFailed(w)

\* guacd_add_user and the tail of guacd_route_connection. The descriptor
\* sent is user_fd, which is 0. When guacd_send_fd succeeds the backend
\* holds the descriptor and its session has one more user; guacd_add_user
\* returns 0. Otherwise it logs and returns 1. guacd_route_connection
\* returns 1 in both cases.
RouteAddUser(wr, sent) ==
    IF sent
    THEN [wr EXCEPT !.attaches = @ + 1,
                    !.add_user = 0,
                    !.ret = 1,
                    !.pc = "routed"]
    ELSE [wr EXCEPT !.attaches = @ + 1,
                    !.add_user = 1,
                    !.log = Append(@, "Unable to add user"),
                    !.ret = 1,
                    !.pc = "routed"]

\* guacd_send_fd succeeded: the backend behind the control channel received
\* the descriptor and attached the user it stands for.
DeliverUser(ps, proc, user_fd) ==
    [ps EXCEPT ![proc].fds = Append(@, user_fd),
               ![proc].users = @ + 1]

\* Mutant of AddUserStep: after a successful attach the process is waited
\* for, removed from the registry and released, for joins as for creates.
AddUserStep_Reaps(w) ==
    /\ ~crashed
    /\ worker[w].pc = "add_user"
    /\ \E sent \in BOOLEAN :
         /\ worker' = [worker EXCEPT ![w] = RouteAddUser(@, sent)]
         /\ procs' = IF sent
                     THEN [DeliverUser(procs, worker[w].proc, 0)
                              EXCEPT ![worker[w].proc].alive = FALSE]
                     ELSE procs
         /\ map' = IF sent
                   THEN { e \in map : e[2] # worker[w].proc }
                   ELSE map
    /\ UNCHANGED crashed
    /\ UNCHANGED <<sessionVars, poolVars, threadVars>>

AddUserStep(w) ==
    /\ ~crashed
    /\ worker[w].pc = "add_user"
    /\ \E sent \in BOOLEAN :
         /\ worker' = [worker EXCEPT ![w] = RouteAddUser(@, sent)]
         /\ procs' = IF sent
                     THEN DeliverUser(procs, worker[w].proc, 0)
                     ELSE procs
    /\ UNCHANGED <<map, crashed>>
    /\ UNCHANGED <<sessionVars, poolVars, threadVars>>

\* The process of a backend exits (its last user has left). No statement of
\* the router runs on this event: the waitpid and guacd_proc_map_remove that
\* would follow it are compiled out.
BackendExit(p) ==
    /\ ~crashed
    /\ procs[p] # NoProc
    /\ procs[p].alive
    /\ procs' = [procs EXCEPT ![p].alive = FALSE]
    /\ UNCHANGED <<map, worker, crashed>>
    /\ UNCHANGED <<sessionVars, poolVars, threadVars>>

\* The end of guacd_connection_thread: when routing returned non-zero the
\* socket is freed and the descriptor closed; the context is freed.
ThreadEnd(wr) ==
    IF wr.ret # 0
    THEN [wr EXCEPT !.socket_freed = TRUE, !.fd_closed = TRUE, !.pc = "done"]
    ELSE [wr EXCEPT !.pc = "done"]

ThreadEndStep(w) ==
    /\ ~crashed
    /\ worker[w].pc = "routed"
    /\ worker' = [worker EXCEPT ![w] = ThreadEnd(@)]
    /\ UNCHANGED <<map, procs, crashed>>
    /\ UNCHANGED <<sessionVars, poolVars, threadVars>>

\* ------------------------------------------------------------------------
\* The client session (client.c)
\* ------------------------------------------------------------------------

\* Largest number of users attached to the session at once.
MaxUsers == 3

UserIds == 1..MaxUsers

\* A guac_user address that holds no user.
NoUser ==
    [allocated |-> FALSE, socket |-> NULL, leave_handler |-> FALSE,
     prev |-> NULL, next |-> NULL]

\* One step a call on the session took.
Event(op, arg) == [op |-> op, arg |-> arg]

\* No user has been unlinked yet.
NoUnlink == [user |-> NULL, prev |-> NULL, next |-> NULL]

\* guac_client_alloc, followed by the protocol plugin filling the handler
\* table: the client runs, has no user, and each of its join, leave and free
\* handlers is either defined or left NULL.
SessionInit ==
    /\ \E jh \in BOOLEAN, lh \in BOOLEAN, fh \in BOOLEAN :
         client = [state |-> "RUNNING",
                   users |-> NULL,
                   join_handler |-> jh,
                   leave_handler |-> lh,
                   free_handler |-> fh,
                   freed |-> FALSE]
    /\ user = [u \in UserIds |-> NoUser]
    /\ trace = <<>>
    /\ attached = {}
    /\ unlinked = NoUnlink
    /\ sent_errors = 0

\* The users reached from u by next links, at most n of them.
RECURSIVE Walk(_, _, _)
Walk(um, u, n) ==
    IF u = NULL \/ n = 0
    THEN <<>>
    ELSE <<u>> \o Walk(um, um[u].next, n - 1)

\* The user list of the client, from its head.
UserList(c, um) == Walk(um, c.users, MaxUsers + 1)

\* guac_client_add_user, the insertion under __users_lock: the new user
\* becomes the head, in front of the old head.
InsertHead(c, um, u) ==
    LET um1 == [um EXCEPT ![u].prev = NULL, ![u].next = c.users]
        um2 == IF c.users # NULL
               THEN [um1 EXCEPT ![c.users].prev = u]
               ELSE um1
    IN [client |-> [c EXCEPT !.users = u], user |-> um2]

\* guac_client_add_user: the user is allocated with the socket and without
\* leave handler, the client's join handler (if defined) is called and may
\* give the user a leave handler of its own, then the user is linked in.
guac_client_add_user(c, um, u, socket, sets_leave) ==
    LET um1 == [um EXCEPT ![u] = [allocated |-> TRUE,
                                  socket |-> socket,
                                  leave_handler |-> FALSE,
                                  prev |-> NULL,
                                  next |-> NULL]]
        um2 == IF c.join_handler
               THEN [um1 EXCEPT ![u].leave_handler = sets_leave]
               ELSE um1
        L   == InsertHead(c, um2, u)
    IN [client |-> L.client,
        user   |-> L.user,
        trace  |-> (IF c.join_handler
                    THEN <<Event("join_handler", u)>> ELSE <<>>)
                   \o <<Event("lock", u), Event("link", u),
                        Event("unlock", u)>>]

\* Mutant of LeaveHandler: the client's leave handler is called as well as
\* the user's own.
LeaveHandler_Both(c, um, u) ==
    (IF um[u].leave_handler
     THEN <<Event("user_leave_handler", u)>> ELSE <<>>)
    \o (IF c.leave_handler
        THEN <<Event("client_leave_handler", u)>> ELSE <<>>)

\* guac_client_remove_user, the handler call: the user's own leave handler
\* if defined, else the client's if defined.
LeaveHandler(c, um, u) ==
    IF um[u].leave_handler
    THEN <<Event("user_leave_handler", u)>>
    ELSE IF c.leave_handler
    THEN <<Event("client_leave_handler", u)>>
    ELSE <<>>

\* Mutant of Unlink: the next user's prev link is not repaired.
Unlink_NoPrevRepair(c, um, u) ==
    LET c1  == IF um[u].prev # NULL THEN c
               ELSE [c EXCEPT !.users = um[u].next]
        um1 == IF um[u].prev # NULL
               THEN [um EXCEPT ![um[u].prev].next = um[u].next]
               ELSE um
    IN [client |-> c1, user |-> um1]

\* guac_client_remove_user, the removal under __users_lock: the previous
\* user (or the head) and the next user are made to skip the user.
Unlink(c, um, u) ==
    LET c1  == IF um[u].prev # NULL THEN c
               ELSE [c EXCEPT !.users = um[u].next]
        um1 == IF um[u].prev # NULL
               THEN [um EXCEPT ![um[u].prev].next = um[u].next]
               ELSE um
        um2 == IF um[u].next # NULL
               THEN [um1 EXCEPT ![um[u].next].prev = um[u].prev]
               ELSE um1
    IN [client |-> c1, user |-> um2]

\* guac_client_remove_user: leave handler, unlink, release of the user's
\* socket and of the user. S holds the client, the users and the trace.
guac_client_remove_user(S, u) ==
    LET L == Unlink(S.client, S.user, u)
    IN [client |-> L.client,
        user   |-> [L.user EXCEPT ![u] = NoUser],
        trace  |-> S.trace
                   \o LeaveHandler(S.client, S.user, u)
                   \o <<Event("lock", u), Event("unlink", u),
                        Event("unlock", u),
                        Event("guac_socket_free", S.user[u].socket),
                        Event("free_user", u)>>]

\* guac_client_free, the loop: the head is removed until there is no head.
RECURSIVE RemoveAllUsers(_)
RemoveAllUsers(S) ==
    IF S.client.users = NULL
    THEN S
    ELSE RemoveAllUsers(guac_client_remove_user(S, S.client.users))

\* Mutant of guac_client_free: the free handler is called before the users
\* are removed.
guac_client_free_HandlerFirst(S) ==
    LET D == RemoveAllUsers(
                 [S EXCEPT !.trace =
                      @ \o (IF S.client.free_handler
                            THEN <<Event("free_handler", NULL)>> ELSE <<>>)])
    IN [client |-> [D.client EXCEPT !.freed = TRUE],
        user   |-> D.user,
        trace  |-> D.trace \o <<Event("free_client", NULL)>>]

\* guac_client_free: all users removed, the free handler called if defined,
\* the pools, the streams, the lock and the client released.
guac_client_free(S) ==
    LET D == RemoveAllUsers(S)
    IN [client |-> [D.client EXCEPT !.freed = TRUE],
        user   |-> D.user,
        trace  |-> D.trace
                   \o (IF D.client.free_handler
                       THEN <<Event("free_handler", NULL)>> ELSE <<>>)
                   \o <<Event("free_client", NULL)>>]

\* The socket of the connection a new user stands for. Sockets are told
\* apart by a number; the socket handed over with the user allocated at
\* address u is given the number u.
NewSocket(u) == u

\* A call of guac_client_add_user with the socket of a new connection; the
\* user record is allocated at any free address.
AddUser ==
    /\ ~client.freed
    /\ \E u \in UserIds, sets_leave \in BOOLEAN :
         /\ ~user[u].allocated
         /\ LET R == guac_client_add_user(client, user, u, NewSocket(u),
                                          sets_leave)
            IN /\ client' = R.client
               /\ user' = R.user
               /\ trace' = R.trace
         /\ attached' = attached \cup {u}
    /\ unlinked' = NoUnlink
    /\ UNCHANGED sent_errors
    /\ UNCHANGED <<routerVars, poolVars, threadVars>>

\* A call of guac_client_remove_user on a user of the session.
RemoveUser ==
    /\ ~client.freed
    /\ \E u \in attached :
         /\ LET R == guac_client_remove_user(
                        [client |-> client, user |-> user, trace |-> <<>>], u)
            IN /\ client' = R.client
               /\ user' = R.user
               /\ trace' = R.trace
         /\ attached' = attached \ {u}
         /\ unlinked' = [user |-> u, prev |-> user[u].prev,
                         next |-> user[u].next]
    /\ UNCHANGED sent_errors
    /\ UNCHANGED <<routerVars, poolVars, threadVars>>

\* A call of guac_client_free; nothing may use the client afterwards.
Free ==
    /\ ~client.freed
    /\ LET R == guac_client_free(
                    [client |-> client, user |-> user, trace |-> <<>>])
       IN /\ client' = R.client
          /\ user' = R.user
          /\ trace' = R.trace
    /\ attached' = {}
    /\ unlinked' = NoUnlink
    /\ UNCHANGED sent_errors
    /\ UNCHANGED <<routerVars, poolVars, threadVars>>

\* __guac_socket_broadcast_write_handler, the write handler of the client's
\* socket: a stub that writes to no user's socket and returns 0.
guac_socket_broadcast_write_handler(c, um) ==
    <<Event("broadcast_write", NULL), Event("return", 0)>>

\* A write on the client's socket, which calls its write handler.
BroadcastWrite ==
    /\ ~client.freed
    /\ trace' = guac_socket_broadcast_write_handler(client, user)
    /\ unlinked' = NoUnlink
    /\ UNCHANGED <<client, user, attached, sent_errors>>
    /\ UNCHANGED <<routerVars, poolVars, threadVars>>

\* guac_client_stop: the state becomes STOPPING, whatever it was.
guac_client_stop(c) == [c EXCEPT !.state = "STOPPING"]

\* Mutant of vguac_client_abort: the state is not tested.
vguac_client_abort_Unconditional(c) ==
    [client |-> guac_client_stop(c),
     trace  |-> <<Event("abort", NULL),
                  Event("log_error", NULL),
                  Event("send_error", NULL),
                  Event("socket_flush", NULL),
                  Event("stop", NULL)>>]

\* vguac_client_abort: only if the client is running, the error is logged,
\* a generic error sent on the client's socket, the socket flushed and the
\* client stopped.
vguac_client_abort(c) ==
    IF c.state = "RUNNING"
    THEN [client |-> guac_client_stop(c),
          trace  |-> <<Event("abort", NULL),
                       Event("log_error", NULL),
                       Event("send_error", NULL),
                       Event("socket_flush", NULL),
                       Event("stop", NULL)>>]
    ELSE [client |-> c, trace |-> <<Event("abort", NULL)>>]

\* The errors a call sent on the client's socket.
SendErrors(tr) == { i \in 1..Len(tr) : tr[i].op = "send_error" }

\* A call of guac_client_abort.
Abort ==
    /\ ~client.freed
    /\ LET R == vguac_client_abort(client)
       IN /\ client' = R.client
          /\ trace' = R.trace
          /\ sent_errors' = sent_errors + Cardinality(SendErrors(R.trace))
    /\ unlinked' = NoUnlink
    /\ UNCHANGED <<user, attached>>
    /\ UNCHANGED <<routerVars, poolVars, threadVars>>

\* A call of guac_client_stop.
Stop ==
    /\ ~client.freed
    /\ client' = guac_client_stop(client)
    /\ trace' = <<Event("stop", NULL)>>
    /\ unlinked' = NoUnlink
    /\ UNCHANGED <<user, attached, sent_errors>>
    /\ UNCHANGED <<routerVars, poolVars, threadVars>>

\* ------------------------------------------------------------------------
\* The index pools and the layers, buffers and streams drawn from them
\* (client.c; the pool itself is the index pool allocator of pool.c)
\* ------------------------------------------------------------------------

\* Largest number of layers, and of buffers, allocated at one time.
MaxSurfaces == 2

\* Largest number of fresh values drawn from one pool.
MaxValues == 3

SurfaceIds == 1..MaxSurfaces

\* Number of slots of the client's stream table.
GUAC_CLIENT_MAX_STREAMS == 4

\* The index of a stream table slot that holds no open stream.
GUAC_CLIENT_CLOSED_STREAM_INDEX == -1

StreamIds == 0..(GUAC_CLIENT_MAX_STREAMS - 1)

\* A call and the value it returned.
Result(op, value) == [op |-> op, value |-> value]

\* guac_pool_alloc: a pool from which nothing has been drawn.
guac_pool_alloc ==
    [next_value |-> 0, free |-> <<>>, active |-> 0, held |-> {}]

\* guac_pool_next_int: a released value if there is one, oldest first, else
\* the value of the counter, which advances. Yields the value and the pool.
guac_pool_next_int(pool) ==
    IF pool.free # <<>>
    THEN [value |-> Head(pool.free),
          pool  |-> [pool EXCEPT !.free = Tail(@),
                                 !.active = @ + 1,
                                 !.held = @ \cup {Head(pool.free)}]]
    ELSE [value |-> pool.next_value,
          pool  |-> [pool EXCEPT !.next_value = @ + 1,
                                 !.active = @ + 1,
                                 !.held = @ \cup {pool.next_value}]]

\* Mutant of guac_pool_free_int: the value is released without regard to
\* whether it is active.
guac_pool_free_int_Blind(pool, value) ==
    [pool EXCEPT !.free = Append(@, value),
                 !.active = @ - 1,
                 !.held = @ \ {value}]

\* guac_pool_free_int: an active value becomes reusable and the active count
\* drops; the release of a value that is not active does nothing.
guac_pool_free_int(pool, value) ==
    IF value \in pool.held
    THEN [pool EXCEPT !.free = Append(@, value),
                      !.active = @ - 1,
                      !.held = @ \ {value}]
    ELSE pool

\* The client's three pools after guac_client_alloc.
NewPools ==
    [layer |-> guac_pool_alloc, buffer |-> guac_pool_alloc,
     stream |-> guac_pool_alloc]

\* guac_client_alloc_layer: the index is the pool's next value plus one.
guac_client_alloc_layer(ps) ==
    LET n == guac_pool_next_int(ps.layer)
    IN [pools |-> [ps EXCEPT !.layer = n.pool], index |-> n.value + 1]

\* guac_client_alloc_buffer: the index is minus the pool's next value,
\* minus one.
guac_client_alloc_buffer(ps) ==
    LET n == guac_pool_next_int(ps.buffer)
    IN [pools |-> [ps EXCEPT !.buffer = n.pool], index |-> -n.value - 1]

\* guac_client_free_buffer: the value -index - 1 goes back to the pool.
guac_client_free_buffer(ps, index) ==
    [ps EXCEPT !.buffer = guac_pool_free_int(@, -index - 1)]

\* guac_client_free_layer: the layer's index itself goes back to the pool.
guac_client_free_layer(ps, index) ==
    [ps EXCEPT !.layer = guac_pool_free_int(@, index)]

\* The lowest address in ids at which table t holds nothing.
FreeAddress(t, ids) ==
    CHOOSE a \in ids : t[a] = 0 /\ \A b \in ids : b < a => t[b] # 0

\* The client right after guac_client_alloc: nothing allocated.
PoolInit ==
    /\ pools = NewPools
    /\ layers = [a \in SurfaceIds |-> 0]
    /\ buffers = [a \in SurfaceIds |-> 0]
    /\ output_streams = [i \in StreamIds |-> GUAC_CLIENT_CLOSED_STREAM_INDEX]
    /\ stream_ub = "none"
    /\ result = Result("none", NULL)

\* A call of guac_client_alloc_layer.
AllocLayer ==
    /\ \E a \in SurfaceIds : layers[a] = 0
    /\ pools.layer.next_value < MaxValues
    /\ LET R == guac_client_alloc_layer(pools)
       IN /\ pools' = R.pools
          /\ layers' = [layers EXCEPT ![FreeAddress(layers, SurfaceIds)] =
                                          R.index]
          /\ result' = Result("alloc_layer", R.index)
    /\ UNCHANGED <<buffers, output_streams, stream_ub>>
    /\ UNCHANGED <<routerVars, sessionVars, threadVars>>

\* A call of guac_client_free_layer on an allocated layer.
FreeLayer ==
    /\ \E a \in SurfaceIds :
         /\ layers[a] # 0
         /\ pools' = guac_client_free_layer(pools, layers[a])
         /\ layers' = [layers EXCEPT ![a] = 0]
         /\ result' = Result("free_layer", NULL)
    /\ UNCHANGED <<buffers, output_streams, stream_ub>>
    /\ UNCHANGED <<routerVars, sessionVars, threadVars>>

\* A call of guac_client_alloc_buffer.
AllocBuffer ==
    /\ \E a \in SurfaceIds : buffers[a] = 0
    /\ pools.buffer.next_value < MaxValues
    /\ LET R == guac_client_alloc_buffer(pools)
       IN /\ pools' = R.pools
          /\ buffers' = [buffers EXCEPT ![FreeAddress(buffers, SurfaceIds)] =
                                            R.index]
          /\ result' = Result("alloc_buffer", R.index)
    /\ UNCHANGED <<layers, output_streams, stream_ub>>
    /\ UNCHANGED <<routerVars, sessionVars, threadVars>>

\* A call of guac_client_free_buffer on an allocated buffer.
FreeBuffer ==
    /\ \E a \in SurfaceIds :
         /\ buffers[a] # 0
         /\ pools' = guac_client_free_buffer(pools, buffers[a])
         /\ buffers' = [buffers EXCEPT ![a] = 0]
         /\ result' = Result("free_buffer", NULL)
    /\ UNCHANGED <<layers, output_streams, stream_ub>>
    /\ UNCHANGED <<routerVars, sessionVars, threadVars>>

\* guac_client_alloc_stream, the test made first: every stream is in use.
StreamsExhausted(ps) == ps.stream.active = GUAC_CLIENT_MAX_STREAMS

\* guac_client_alloc_stream, the initialisation of the slot found at the
\* index drawn. A write to an index outside the table is left to the action.
InitStream(table, index) ==
    IF index \in DOMAIN table
    THEN [table EXCEPT ![index] = index]
    ELSE table

\* Mutant of guac_client_alloc_stream: the pool is refused only once more
\* streams are active than the table holds.
guac_client_alloc_stream_OffByOne(ps, table) ==
    IF ps.stream.active > GUAC_CLIENT_MAX_STREAMS
    THEN [pools |-> ps, streams |-> table,
          result |-> Result("alloc_stream_NULL", NULL)]
    ELSE LET n == guac_pool_next_int(ps.stream)
         IN [pools   |-> [ps EXCEPT !.stream = n.pool],
             streams |-> InitStream(table, n.value),
             result  |-> Result("alloc_stream", n.value)]

\* guac_client_alloc_stream: NULL when every stream is in use, else the slot
\* at the index drawn from the stream pool, initialised.
guac_client_alloc_stream(ps, table) ==
    IF StreamsExhausted(ps)
    THEN [pools |-> ps, streams |-> table,
          result |-> Result("alloc_stream_NULL", NULL)]
    ELSE LET n == guac_pool_next_int(ps.stream)
         IN [pools   |-> [ps EXCEPT !.stream = n.pool],
             streams |-> InitStream(table, n.value),
             result  |-> Result("alloc_stream", n.value)]

\* guac_client_free_stream on the stream in slot i: the slot's index goes
\* back to the pool and the slot is marked closed.
guac_client_free_stream(ps, table, i) ==
    [pools   |-> [ps EXCEPT !.stream = guac_pool_free_int(@, table[i])],
     streams |-> [table EXCEPT ![i] = GUAC_CLIENT_CLOSED_STREAM_INDEX]]

\* What a write to slot index leads to: nothing special inside the table;
\* outside it, a fault or the overwriting of whatever lies there.
WriteOutcomes(index) ==
    IF index \in StreamIds THEN {"none"} ELSE {"fault", "overwrite"}

\* A call of guac_client_alloc_stream.
AllocStream ==
    /\ stream_ub = "none"
    /\ pools.stream.next_value <= GUAC_CLIENT_MAX_STREAMS
    /\ LET R == guac_client_alloc_stream(pools, output_streams)
       IN /\ pools' = R.pools
          /\ output_streams' = R.streams
          /\ result' = R.result
          /\ stream_ub' \in (IF R.result.op = "alloc_stream"
                             THEN WriteOutcomes(R.result.value)
                             ELSE {"none"})
    /\ UNCHANGED <<layers, buffers>>
    /\ UNCHANGED <<routerVars, sessionVars, threadVars>>

\* A call of guac_client_free_stream on a stream the client handed out
\* earlier, open or closed since.
FreeStream ==
    /\ stream_ub = "none"
    /\ \E i \in StreamIds :
         /\ LET R == guac_client_free_stream(pools, output_streams, i)
            IN /\ pools' = R.pools
               /\ output_streams' = R.streams
         /\ result' = Result("free_stream", i)
    /\ UNCHANGED <<layers, buffers, stream_ub>>
    /\ UNCHANGED <<routerVars, sessionVars, threadVars>>

\* ------------------------------------------------------------------------
\* Threads of one backend calling guac_client_add_user,
\* guac_client_remove_user and guac_client_free, one memory access or lock
\* operation at a time (src/libguac/client.c)
\* ------------------------------------------------------------------------

\* Number of threads adding and removing users.
NumThreads == 2

\* Number of user addresses the threads add and remove.
MaxThreadUsers == 2

ThreadIds == 1..NumThreads

ThreadUserIds == 1..MaxThreadUsers

\* The thread that calls guac_client_free.
FreeThread == NumThreads + 1

\* A thread that is in no call.
IdleThread == [pc |-> "idle", user |-> NULL, caller |-> "none"]

\* A user for which nothing has been torn down.
NoTeardown == [leave |-> 0, unlink |-> 0, release |-> 0]

\* guac_client_alloc, followed by a protocol plugin that defines a leave
\* handler (lh) or none, and no join or free handler.
ThreadsClient(lh) ==
    [state |-> "RUNNING",
     users |-> NULL,
     join_handler |-> FALSE,
     leave_handler |-> lh,
     free_handler |-> FALSE,
     freed |-> FALSE]

\* The client before any thread has added a user.
ThreadsClientInit ==
    /\ \E lh \in BOOLEAN : client = ThreadsClient(lh)
    /\ user = [u \in UserIds |-> NoUser]
    /\ trace = <<>>
    /\ attached = {}
    /\ unlinked = NoUnlink
    /\ sent_errors = 0

\* The client and its users after guac_client_add_user has been called for
\* the users 1..k, one call after the other.
RECURSIVE AttachUsers(_, _, _)
AttachUsers(c, um, k) ==
    IF k = 0
    THEN [client |-> c, user |-> um]
    ELSE LET S == AttachUsers(c, um, k - 1)
             R == guac_client_add_user(S.client, S.user, k, NewSocket(k),
                                       FALSE)
         IN [client |-> R.client, user |-> R.user]

\* The client with its users attached, before it is torn down.
TeardownClientInit ==
    /\ \E lh \in BOOLEAN, k \in ThreadUserIds :
         LET S == AttachUsers(ThreadsClient(lh),
                              [u \in UserIds |-> NoUser], k)
         IN /\ client = S.client
            /\ user = S.user
            /\ attached = 1..k
    /\ trace = <<>>
    /\ unlinked = NoUnlink
    /\ sent_errors = 0

\* No thread has started.
ThreadsIdle ==
    /\ thread = [t \in {FreeThread} \cup ThreadIds |-> IdleThread]
    /\ users_lock = NULL
    /\ torn = [u \in UserIds |-> NoTeardown]
    /\ faulted = FALSE

\* Largest number of times the tear-down of one user is followed.
MaxTeardowns == 2

\* No access has faulted, and no user has been torn down MaxTeardowns times.
Running ==
    /\ ~faulted
    /\ \A u \in UserIds : /\ torn[u].leave < MaxTeardowns
                           /\ torn[u].unlink < MaxTeardowns
                           /\ torn[u].release < MaxTeardowns

\* Mutant of pthread_mutex_lock_Returns: the lock is taken without waiting
\* for its holder.
pthread_mutex_lock_NoWait(holder) == TRUE

\* pthread_mutex_lock returns once no thread holds the mutex.
pthread_mutex_lock_Returns(holder) == holder = NULL

\* The thread's position becomes pc.
Goto(t, pc) == thread' = [thread EXCEPT ![t].pc = pc]

\* The thread returns from guac_client_remove_user or
\* guac_client_add_user to its caller.
Return(t) ==
    thread' = [thread EXCEPT ![t] =
                  IF thread[t].caller = "guac_client_free"
                  THEN [pc |-> "free_loop", user |-> NULL,
                        caller |-> "guac_client_free"]
                  ELSE IdleThread]

\* guac_client_add_user is entered: the user is allocated with its socket
\* and without leave handler (the client of these threads has no join
\* handler to call). malloc leaves the links as they were.
AddBegin ==
    /\ Running
    /\ \E t \in ThreadIds, u \in ThreadUserIds :
         /\ thread[t].pc = "idle"
         /\ ~user[u].allocated
         /\ \A t2 \in {FreeThread} \cup ThreadIds : thread[t2].user # u
         /\ user' = [user EXCEPT ![u].allocated = TRUE,
                                 ![u].socket = NewSocket(u),
                                 ![u].leave_handler = FALSE]
         /\ torn' = [torn EXCEPT ![u] = NoTeardown]
         /\ thread' = [thread EXCEPT ![t] =
                          [pc |-> "add_lock", user |-> u,
                           caller |-> "none"]]
    /\ UNCHANGED <<client, trace, attached, unlinked, sent_errors>>
    /\ UNCHANGED <<users_lock, faulted>>
    /\ UNCHANGED <<routerVars, poolVars>>

\* guac_client_remove_user is entered by a thread for a user that is
\* attached and that no other thread is removing.
RemoveBegin ==
    /\ Running
    /\ \E t \in ThreadIds, u \in attached :
         /\ thread[t].pc = "idle"
         /\ attached' = attached \ {u}
         /\ thread' = [thread EXCEPT ![t] =
                          [pc |-> "rm_handler", user |-> u,
                           caller |-> "none"]]
    /\ UNCHANGED <<client, user, trace, unlinked, sent_errors>>
    /\ UNCHANGED <<users_lock, torn, faulted>>
    /\ UNCHANGED <<routerVars, poolVars>>

\* guac_client_remove_user, the handler call: the user's own leave handler
\* if defined, else the client's if defined.
LeaveStep ==
    /\ Running
    /\ \E t \in {FreeThread} \cup ThreadIds :
         /\ thread[t].pc = "rm_handler"
         /\ LET u == thread[t].user
            IN torn' = [torn EXCEPT ![u].leave =
                           @ + Len(LeaveHandler(client, user, u))]
         /\ Goto(t, "rm_lock")
    /\ UNCHANGED sessionVars
    /\ UNCHANGED <<users_lock, faulted>>
    /\ UNCHANGED <<routerVars, poolVars>>

\* pthread_mutex_lock(&(client->__users_lock)) returns to the thread.
Acquire ==
    /\ Running
    /\ \E t \in {FreeThread} \cup ThreadIds :
         /\ thread[t].pc \in {"add_lock", "rm_lock"}
         /\ pthread_mutex_lock_Returns(users_lock)
         /\ users_lock' = t
         /\ Goto(t, IF thread[t].pc = "add_lock"
                    THEN "add_self" ELSE "rm_prev")
    /\ UNCHANGED sessionVars
    /\ UNCHANGED <<torn, faulted>>
    /\ UNCHANGED <<routerVars, poolVars>>

\* guac_client_add_user: user->__prev = NULL; user->__next = client->__users.
AddLinkSelf(c, um, u) ==
    [client |-> c,
     user   |-> [um EXCEPT ![u].prev = NULL, ![u].next = c.users]]

\* guac_client_add_user: the old head, if any, gets the user as its prev.
AddLinkOldHead(c, um, u) ==
    [client |-> c,
     user   |-> IF c.users # NULL
                THEN [um EXCEPT ![c.users].prev = u]
                ELSE um]

\* guac_client_add_user: client->__users = user.
AddLinkHead(c, um, u) ==
    [client |-> [c EXCEPT !.users = u], user |-> um]

\* guac_client_remove_user, "Update prev / head".
RemoveLinkPrev(c, um, u) ==
    IF um[u].prev # NULL
    THEN [client |-> c,
          user   |-> [um EXCEPT ![um[u].prev].next = um[u].next]]
    ELSE [client |-> [c EXCEPT !.users = um[u].next], user |-> um]

\* guac_client_remove_user, "Update next".
RemoveLinkNext(c, um, u) ==
    [client |-> c,
     user   |-> IF um[u].next # NULL
                THEN [um EXCEPT ![um[u].next].prev = um[u].prev]
                ELSE um]

\* The statement at pc applied to the list, and the position after it.
LinkStatement(pc, c, um, u) ==
    CASE pc = "add_self" ->
             [to |-> "add_oldhead", s |-> AddLinkSelf(c, um, u)]
      [] pc = "add_oldhead" ->
             [to |-> "add_head", s |-> AddLinkOldHead(c, um, u)]
      [] pc = "add_head" ->
             [to |-> "add_unlock", s |-> AddLinkHead(c, um, u)]
      [] pc = "rm_prev" ->
             [to |-> "rm_next", s |-> RemoveLinkPrev(c, um, u)]
      [] pc = "rm_next" ->
             [to |-> "rm_unlock", s |-> RemoveLinkNext(c, um, u)]

\* One statement between pthread_mutex_lock and pthread_mutex_unlock, of
\* guac_client_add_user or of guac_client_remove_user.
LinkStep ==
    /\ Running
    /\ \E t \in {FreeThread} \cup ThreadIds :
         /\ thread[t].pc \in {"add_self", "add_oldhead", "add_head",
                              "rm_prev", "rm_next"}
         /\ LET R == LinkStatement(thread[t].pc, client, user,
                                   thread[t].user)
            IN /\ client' = R.s.client
               /\ user' = R.s.user
               /\ Goto(t, R.to)
         /\ torn' = IF thread[t].pc = "rm_next"
                    THEN [torn EXCEPT ![thread[t].user].unlink = @ + 1]
                    ELSE torn
    /\ UNCHANGED <<trace, attached, unlinked, sent_errors>>
    /\ UNCHANGED <<users_lock, faulted>>
    /\ UNCHANGED <<routerVars, poolVars>>

\* pthread_mutex_unlock(&(client->__users_lock)); guac_client_add_user then
\* returns the user, guac_client_remove_user goes on to clean up.
Unlock ==
    /\ Running
    /\ \E t \in {FreeThread} \cup ThreadIds :
         /\ thread[t].pc \in {"add_unlock", "rm_unlock"}
         /\ users_lock' = NULL
         /\ IF thread[t].pc = "add_unlock"
            THEN /\ attached' = attached \cup {thread[t].user}
                 /\ Return(t)
            ELSE /\ UNCHANGED attached
                 /\ Goto(t, "rm_release")
    /\ UNCHANGED <<client, user, trace, unlinked, sent_errors>>
    /\ UNCHANGED <<torn, faulted>>
    /\ UNCHANGED <<routerVars, poolVars>>

\* guac_client_remove_user, "Clean up user": guac_socket_free(user->socket)
\* and free(user). The released memory keeps what it held.
Cleanup ==
    /\ Running
    /\ \E t \in {FreeThread} \cup ThreadIds :
         /\ thread[t].pc = "rm_release"
         /\ LET u == thread[t].user
            IN /\ user' = [user EXCEPT ![u].allocated = FALSE]
               /\ torn' = [torn EXCEPT ![u].release = @ + 1]
         /\ Return(t)
    /\ UNCHANGED <<client, trace, attached, unlinked, sent_errors>>
    /\ UNCHANGED <<users_lock, faulted>>
    /\ UNCHANGED <<routerVars, poolVars>>

\* guac_client_free is entered by its thread.
FreeBegin ==
    /\ Running
    /\ thread[FreeThread].pc = "idle"
    /\ ~client.freed
    /\ thread' = [thread EXCEPT ![FreeThread] =
                     [pc |-> "free_loop", user |-> NULL,
                      caller |-> "guac_client_free"]]
    /\ UNCHANGED sessionVars
    /\ UNCHANGED <<users_lock, torn, faulted>>
    /\ UNCHANGED <<routerVars, poolVars>>

\* guac_client_free, the loop test, which reads client->__users without the
\* lock: with a head, guac_client_remove_user is entered for it; without,
\* the free handler runs if defined and the client is released.
FreeLoop ==
    /\ Running
    /\ thread[FreeThread].pc = "free_loop"
    /\ IF client.users # NULL
       THEN /\ thread' = [thread EXCEPT ![FreeThread] =
                             [pc |-> "rm_handler", user |-> client.users,
                              caller |-> "guac_client_free"]]
            /\ UNCHANGED client
       ELSE /\ thread' = [thread EXCEPT ![FreeThread] =
                             [pc |-> "free_done", user |-> NULL,
                              caller |-> "none"]]
            /\ client' = [client EXCEPT !.freed = TRUE]
    /\ attached' = attached \ {client.users}
    /\ UNCHANGED <<user, trace, unlinked, sent_errors>>
    /\ UNCHANGED <<users_lock, torn, faulted>>
    /\ UNCHANGED <<routerVars, poolVars>>

\* The next statement of the thread reads or writes memory that has been
\* released: its user, or the client.
TouchesReleased(t) ==
    /\ thread[t].pc \notin {"idle", "free_done"}
    /\ \/ client.freed
       \/ /\ thread[t].user # NULL
          /\ thread[t].pc \notin {"add_lock", "rm_lock"}
          /\ ~user[thread[t].user].allocated

\* An access to released memory faults; the other outcome is that the
\* statement runs on what the memory still holds, which is the thread's
\* ordinary step.
Fault ==
    /\ Running
    /\ \E t \in {FreeThread} \cup ThreadIds : TouchesReleased(t)
    /\ faulted' = TRUE
    /\ UNCHANGED sessionVars
    /\ UNCHANGED <<thread, users_lock, torn>>
    /\ UNCHANGED <<routerVars, poolVars>>

\* guac_client_alloc_stream is entered by a thread and makes its test: with
\* every stream in use it returns NULL, otherwise it goes on to the pool.
StreamCheck ==
    /\ stream_ub = "none"
    /\ \E t \in ThreadIds :
         /\ thread[t].pc = "idle"
         /\ IF StreamsExhausted(pools)
            THEN /\ result' = Result("alloc_stream_NULL", NULL)
                 /\ UNCHANGED thread
            ELSE /\ Goto(t, "alloc_draw")
                 /\ UNCHANGED result
    /\ UNCHANGED <<pools, layers, buffers, output_streams, stream_ub>>
    /\ UNCHANGED <<users_lock, torn, faulted>>
    /\ UNCHANGED <<routerVars, sessionVars>>

\* guac_client_alloc_stream, after the test: the index is drawn from the
\* pool, the slot at that index is initialised and returned.
StreamDraw ==
    /\ stream_ub = "none"
    /\ pools.stream.next_value <= GUAC_CLIENT_MAX_STREAMS
    /\ \E t \in ThreadIds :
         /\ thread[t].pc = "alloc_draw"
         /\ LET n == guac_pool_next_int(pools.stream)
            IN /\ pools' = [pools EXCEPT !.stream = n.pool]
               /\ output_streams' = InitStream(output_streams, n.value)
               /\ result' = Result("alloc_stream", n.value)
               /\ stream_ub' \in WriteOutcomes(n.value)
         /\ Goto(t, "idle")
    /\ UNCHANGED <<layers, buffers>>
    /\ UNCHANGED <<users_lock, torn, faulted>>
    /\ UNCHANGED <<routerVars, sessionVars>>

\* No session is modelled next to the router.
SessionIdle ==
    /\ client = [state |-> "RUNNING", users |-> NULL, join_handler |-> FALSE,
                 leave_handler |-> FALSE, free_handler |-> FALSE,
                 freed |-> FALSE]
    /\ user = [u \in UserIds |-> NoUser]
    /\ trace = <<>>
    /\ attached = {}
    /\ unlinked = NoUnlink
    /\ sent_errors = 0

\* No connection thread runs next to the session.
RouterIdle ==
    /\ map = {}
    /\ procs = [p \in ProcIds |-> NoProc]
    /\ worker = [w \in Workers |-> NewWorker]
    /\ crashed = FALSE

Init == RouterInit /\ SessionIdle /\ PoolInit /\ ThreadsIdle

Next ==
    \E w \in Workers :
        \/ SelectStep(w)
        \/ RetrieveStep(w)
        \/ CreateStep(w)
        \/ AddUserStep(w)
        \/ ThreadEndStep(w)

Spec == Init /\ [][Next]_vars

\* The connection threads next to backends that exit.
NextReap ==
    \/ \E w \in Workers : SelectStep(w)
    \/ \E w \in Workers : RetrieveStep(w)
    \/ \E w \in Workers : CreateStep(w)
    \/ \E w \in Workers : AddUserStep(w)
    \/ \E w \in Workers : ThreadEndStep(w)
    \/ \E p \in ProcIds : BackendExit(p)

SpecReap == Init /\ [][NextReap]_vars

InitSession == RouterIdle /\ SessionInit /\ PoolInit /\ ThreadsIdle

NextSession ==
    \/ AddUser
    \/ RemoveUser
    \/ Free
    \/ BroadcastWrite
    \/ Abort
    \/ Stop

SpecSession == InitSession /\ [][NextSession]_vars

InitSurfaces == RouterIdle /\ SessionIdle /\ PoolInit /\ ThreadsIdle

NextSurfaces ==
    \/ AllocLayer
    \/ FreeLayer
    \/ AllocBuffer
    \/ FreeBuffer

SpecSurfaces == InitSurfaces /\ [][NextSurfaces]_vars

InitStreams == RouterIdle /\ SessionIdle /\ PoolInit /\ ThreadsIdle

NextStreams ==
    \/ AllocStream
    \/ FreeStream

SpecStreams == InitStreams /\ [][NextStreams]_vars

InitThreads == RouterIdle /\ ThreadsClientInit /\ PoolInit /\ ThreadsIdle

\* Threads adding users and removing distinct users.
NextThreads ==
    \/ AddBegin
    \/ RemoveBegin
    \/ LeaveStep
    \/ Acquire
    \/ LinkStep
    \/ Unlock
    \/ Cleanup

SpecThreads == InitThreads /\ [][NextThreads]_vars

InitTeardown == RouterIdle /\ TeardownClientInit /\ PoolInit /\ ThreadsIdle

\* Threads removing users next to one thread calling guac_client_free.
NextTeardown ==
    \/ RemoveBegin
    \/ LeaveStep
    \/ Acquire
    \/ LinkStep
    \/ Unlock
    \/ Cleanup
    \/ FreeBegin
    \/ FreeLoop
    \/ Fault

SpecTeardown == InitTeardown /\ [][NextTeardown]_vars

InitStreamThreads == RouterIdle /\ SessionIdle /\ PoolInit /\ ThreadsIdle

\* Threads allocating and freeing streams of one client.
NextStreamThreads ==
    \/ StreamCheck
    \/ StreamDraw
    \/ FreeStream

SpecStreamThreads == InitStreamThreads /\ [][NextStreamThreads]_vars

\* ------------------------------------------------------------------------
\* Properties of the router (checked under Spec)
\* ------------------------------------------------------------------------

\* The identifier is a connection id: its first character is '$'.
StartsWithDollar(id) == id # <<>> /\ Head(id) = "$"

\* The worker has read a select instruction with exactly one argument.
HasIdentifier(w) == worker[w].select.argc = 1

\* The worker's routing has gone past the join or create branch.
Branched(w) == worker[w].pc \in {"add_user", "routed", "done", "crashed"}

\* The worker's routing has returned.
Returned(w) == worker[w].pc \in {"routed", "done"}

\* The worker took the create branch and the spawn gave it a process.
Created(w) == worker[w].spawns = 1 /\ worker[w].proc # NULL

\* The registry entries that name process p.
EntriesOf(m, p) == { e \in m : e[2] = p }

\* C1: when a create's first attach has succeeded, the registry holds exactly
\* one entry for the new backend, under its connection id, and it held none
\* before the attach.
C1_CreatePublishes ==
    \A w \in Workers :
        Created(w) =>
            /\ worker[w].pc = "add_user" =>
                   EntriesOf(map, worker[w].proc) = {}
            /\ (Returned(w) /\ worker[w].add_user = 0) =>
                   EntriesOf(map, worker[w].proc) =
                       { <<procs[worker[w].proc].connection_id,
                           worker[w].proc>> }

\* C2: when a create's attach has failed, routing reports the error, the
\* registry has no entry for the spawned backend and the backend no longer
\* runs.
C2_AttachFailureTearsDown ==
    \A w \in Workers :
        (Created(w) /\ Returned(w) /\ worker[w].add_user = 1) =>
            /\ worker[w].ret # 0
            /\ EntriesOf(map, worker[w].proc) = {}
            /\ ~procs[worker[w].proc].alive

\* C3: when the spawn of a create fails, the missing process handle is never
\* used, no attach is attempted, the registry is as it was, routing returns
\* an error and the worker ends by closing the connection.
C3_SpawnFailureHandled ==
    \A w \in Workers :
        (worker[w].spawns = 1 /\ worker[w].proc = NULL) =>
            /\ ~worker[w].null_deref
            /\ worker[w].pc # "crashed"
            /\ worker[w].attaches = 0
            /\ map = worker[w].map0
            /\ Returned(w)
            /\ worker[w].ret = 1
            /\ worker[w].pc = "done" =>
                   worker[w].fd_closed /\ worker[w].socket_freed

\* C4: a worker that has ended has freed the socket and closed the
\* descriptor if and only if routing failed, that is, unless the user was
\* attached.
C4_ClosedIffFailed ==
    \A w \in Workers :
        worker[w].pc = "done" =>
            /\ worker[w].fd_closed <=> worker[w].add_user # 0
            /\ worker[w].socket_freed <=> worker[w].add_user # 0

\* C5: an identifier that begins with '$' leads to one registry lookup and
\* no spawn; any other identifier leads to one spawn attempt and no lookup.
C5_Classification ==
    \A w \in Workers :
        HasIdentifier(w) =>
            IF StartsWithDollar(worker[w].select.argv[1])
            THEN /\ worker[w].spawns = 0
                 /\ worker[w].pc # "create"
                 /\ Branched(w) => worker[w].lookups = 1
            ELSE /\ worker[w].lookups = 0
                 /\ worker[w].pc # "retrieve"
                 /\ Branched(w) => worker[w].spawns = 1

\* C5 witness: one worker has joined by a '$' identifier and another has
\* spawned for a protocol name that holds '$' after its first character.
C5_Witness ==
    \E w1 \in Workers, w2 \in Workers :
        /\ Branched(w1)
        /\ HasIdentifier(w1)
        /\ StartsWithDollar(worker[w1].select.argv[1])
        /\ worker[w1].lookups = 1
        /\ Branched(w2)
        /\ worker[w2].select.argv = << <<"v", "$">> >>
        /\ worker[w2].spawns = 1

\* The worker asked to join a connection id the registry did not hold.
JoinedAbsent(w) ==
    /\ HasIdentifier(w)
    /\ StartsWithDollar(worker[w].select.argv[1])
    /\ worker[w].lookups = 1
    /\ \A e \in worker[w].map0 : e[1] # worker[w].select.argv[1]

\* C6: a join whose id is not in the registry fails as an unknown
\* connection: routing returns the error, nothing is spawned, no attach is
\* attempted and the registry is as it was.
C6_JoinAbsent ==
    \A w \in Workers :
        JoinedAbsent(w) =>
            /\ Returned(w)
            /\ worker[w].ret = 1
            /\ worker[w].log = <<"Connection does not exist">>
            /\ worker[w].proc = NULL
            /\ worker[w].spawns = 0
            /\ worker[w].attaches = 0
            /\ map = worker[w].map0

\* C6 witness: a worker has ended after asking for an id the non-empty
\* registry did not hold.
C6_Witness ==
    \E w \in Workers :
        /\ JoinedAbsent(w)
        /\ worker[w].pc = "done"
        /\ map # {}

\* The worker asked to join a connection id the registry held.
JoinedPresent(w) ==
    /\ HasIdentifier(w)
    /\ StartsWithDollar(worker[w].select.argv[1])
    /\ worker[w].lookups = 1
    /\ \E e \in worker[w].map0 : e[1] = worker[w].select.argv[1]

\* The users of process p's session: its owner if p was registered from the
\* start, and one for every worker whose delivery to p succeeded.
ExpectedUsers(p) ==
    (IF EntriesOf(map, p) # {} THEN 1 ELSE 0)
        + Cardinality({ w \in Workers :
                          worker[w].proc = p /\ worker[w].add_user = 0 })

BadArgc(w) ==
    /\ worker[w].pc # "start"
    /\ worker[w].select # NoSelect
    /\ worker[w].select.argc # 1

\* C8: a select instruction without exactly one argument makes routing fail
\* as malformed before any classification: no lookup, no spawn, no attach,
\* the registry as it was, and the worker ends with the connection closed.
C8_BadArgc ==
    \A w \in Workers :
        BadArgc(w) =>
            /\ Returned(w)
            /\ worker[w].ret = 1
            /\ worker[w].log = <<"Bad number of arguments to select">>
            /\ worker[w].lookups = 0
            /\ worker[w].spawns = 0
            /\ worker[w].attaches = 0
            /\ map = worker[w].map0
            /\ worker[w].pc = "done" =>
                   worker[w].fd_closed /\ worker[w].socket_freed

\* C8 witness: one worker has ended after a select without arguments and
\* another after a select with two arguments, both with the connection
\* closed.
C8_Witness ==
    \E w1 \in Workers, w2 \in Workers :
        /\ worker[w1].pc = "done"
        /\ worker[w1].select.argc = 0
        /\ worker[w1].fd_closed
        /\ worker[w2].pc = "done"
        /\ worker[w2].select.argc = 2
        /\ worker[w2].fd_closed

\* ------------------------------------------------------------------------
\* Properties of the session (checked under SpecSession)
\* ------------------------------------------------------------------------

\* C9: the user list is a valid doubly-linked chain holding exactly the
\* users added and not removed: it ends, visits no user twice, its head has
\* no prev, every user's prev is the user before it, and after N additions
\* it holds N users, after a removal (head, middle or tail) the other N-1.
C9_UserListValid ==
    LET L == UserList(client, user) IN
    /\ Len(L) <= MaxUsers
    /\ \A i \in 1..Len(L), j \in 1..Len(L) : i # j => L[i] # L[j]
    /\ { L[i] : i \in 1..Len(L) } = attached
    /\ Len(L) = Cardinality(attached)
    /\ \A i \in 1..Len(L) :
           /\ user[L[i]].allocated
           /\ user[L[i]].prev = (IF i = 1 THEN NULL ELSE L[i - 1])
           /\ user[L[i]].next = (IF i = Len(L) THEN NULL ELSE L[i + 1])
    /\ unlinked.user # NULL => unlinked.user \notin attached

\* C9 witness: the middle one of three users has just been removed and the
\* list holds the two others.
C9_Witness ==
    /\ unlinked.user # NULL
    /\ unlinked.prev # NULL
    /\ unlinked.next # NULL
    /\ attached = {unlinked.prev, unlinked.next}
    /\ Len(UserList(client, user)) = 2

\* The positions of the trace at which a leave handler ran for user u.
LeaveCalls(tr, u) ==
    { i \in 1..Len(tr) :
        /\ tr[i].op \in {"user_leave_handler", "client_leave_handler"}
        /\ tr[i].arg = u }

\* The positions of the trace at which user u was unlinked.
UnlinkSteps(tr, u) ==
    { i \in 1..Len(tr) : tr[i].op = "unlink" /\ tr[i].arg = u }

\* The positions of the trace at which the free handler ran.
FreeCalls(tr) == { i \in 1..Len(tr) : tr[i].op = "free_handler" }

\* The trace tr of a free() called with the users us attached: every user
\* is unlinked once, the leave handlers counted by n run before the unlink
\* of their user, the free handler runs as often as nfree says, after every
\* leave handler and every unlink.
FreeTrace(tr, us, n(_), nfree) ==
    /\ \A u \in UserIds :
           /\ Cardinality(UnlinkSteps(tr, u)) = (IF u \in us THEN 1 ELSE 0)
           /\ Cardinality(LeaveCalls(tr, u)) = (IF u \in us THEN n(u) ELSE 0)
           /\ \A i \in LeaveCalls(tr, u), j \in UnlinkSteps(tr, u) : i < j
    /\ Cardinality(FreeCalls(tr)) = nfree
    /\ \A f \in FreeCalls(tr), u \in UserIds :
           \A i \in LeaveCalls(tr, u) \cup UnlinkSteps(tr, u) : i < f

\* C10 as stated: free() on a session with N users invokes N leave
\* handlers, one per user and each before the user's unlink, then the free
\* handler exactly once.
C10_AllHandlersRun ==
    [][ (~client.freed /\ client'.freed /\ attached # {}) =>
            LET One(u) == 1 IN FreeTrace(trace', attached, One, 1) ]_vars

\* C10, amended: free() invokes one leave handler for every attached user
\* that has a leave handler of its own or whose session defines one, and
\* none for the other users, each before the user's unlink; then, with the
\* list empty, the free handler: once if it is defined, else not at all.
C10_DefinedHandlersRun ==
    [][ (~client.freed /\ client'.freed) =>
            LET Defined(u) ==
                    IF user[u].leave_handler \/ client.leave_handler
                    THEN 1 ELSE 0
            IN /\ FreeTrace(trace', attached, Defined,
                            IF client.free_handler THEN 1 ELSE 0)
               /\ client'.users = NULL ]_vars

\* C10 witness: a session was freed with at least two users, one of which
\* left through its own handler and another through the session's, and the
\* free handler ran.
C10_Witness ==
    /\ client.freed
    /\ \E u \in UserIds, v \in UserIds :
           /\ u # v
           /\ \E i \in LeaveCalls(trace, u) :
                  trace[i].op = "user_leave_handler"
           /\ \E i \in LeaveCalls(trace, v) :
                  trace[i].op = "client_leave_handler"
    /\ FreeCalls(trace) # {}

\* The positions of the trace at which operation op was applied to arg.
Steps(tr, op, arg) ==
    { i \in 1..Len(tr) : tr[i].op = op /\ tr[i].arg = arg }

\* C11: a write on the client's broadcast socket writes once to the socket
\* of every attached user: k writes for k users.
C11_BroadcastReachesAll ==
    (trace # <<>> /\ trace[1].op = "broadcast_write") =>
        /\ \A u \in attached :
               Cardinality(Steps(trace, "socket_write", user[u].socket)) = 1
        /\ Cardinality({ i \in 1..Len(trace) : trace[i].op = "socket_write" })
               = Cardinality(attached)

\* C14: abort acts only on a running client: it logs, sends one error on
\* the client's socket, flushes and stops the client; in any other state it
\* sends nothing and changes nothing. Over any sequence of abort and stop
\* calls at most one error is sent.
C14_AbortOnlyWhenRunning ==
    [][ /\ sent_errors' <= 1
        /\ (trace' # <<>> /\ trace'[1].op = "abort") =>
               IF client.state = "RUNNING"
               THEN /\ trace' = <<Event("abort", NULL),
                                  Event("log_error", NULL),
                                  Event("send_error", NULL),
                                  Event("socket_flush", NULL),
                                  Event("stop", NULL)>>
                    /\ client' = [client EXCEPT !.state = "STOPPING"]
                    /\ sent_errors' = sent_errors + 1
               ELSE /\ trace' = <<Event("abort", NULL)>>
                    /\ client' = client
                    /\ sent_errors' = sent_errors
        /\ (trace' # <<>> /\ trace'[1].op = "stop") =>
               /\ client'.state = "STOPPING"
               /\ sent_errors' = sent_errors ]_vars

\* C14 witness: an abort on a client that an earlier abort had stopped did
\* nothing; one error has been sent.
C14_Witness ==
    /\ trace = <<Event("abort", NULL)>>
    /\ client.state = "STOPPING"
    /\ sent_errors = 1

\* C19: remove_user invokes at most one leave handler, the user's own if it
\* is defined, else the client's if that is defined; the handler runs before
\* the lock is taken, the unlink happens under the lock, and the user's
\* socket is released after the lock is dropped.
C19_RemoveUserOrder ==
    [][ unlinked'.user # NULL =>
            LET u  == unlinked'.user
                tr == trace'
                expected ==
                    IF user[u].leave_handler
                    THEN <<Event("user_leave_handler", u)>>
                    ELSE IF client.leave_handler
                    THEN <<Event("client_leave_handler", u)>>
                    ELSE <<>>
                n == Len(expected)
            IN /\ Cardinality(LeaveCalls(tr, u)) = n
               /\ SubSeq(tr, 1, n) = expected
               /\ Len(tr) = n + 5
               /\ tr[n + 1].op = "lock"
               /\ tr[n + 2] = Event("unlink", u)
               /\ tr[n + 3].op = "unlock"
               /\ tr[n + 4] = Event("guac_socket_free", user[u].socket)
               /\ tr[n + 5] = Event("free_user", u)
               /\ u \notin attached' ]_vars

\* C19 witness: a user with a leave handler of its own has been removed from
\* a session that defines a leave handler too; only the user's own ran.
C19_Witness ==
    /\ unlinked.user # NULL
    /\ client.leave_handler
    /\ trace[1] = Event("user_leave_handler", unlinked.user)
    /\ Len(trace) = 6

\* ------------------------------------------------------------------------
\* Properties of the pools (checked under SpecSurfaces and SpecStreams)
\* ------------------------------------------------------------------------

\* C12: the layers allocated at one time have pairwise distinct indices, and
\* so have the buffers: an index handed out is not handed out again while
\* the handle that holds it is allocated.
C12_DistinctIndices ==
    \A a \in SurfaceIds, b \in SurfaceIds :
        a # b =>
            /\ (layers[a] # 0 /\ layers[b] # 0) => layers[a] # layers[b]
            /\ (buffers[a] # 0 /\ buffers[b] # 0) => buffers[a] # buffers[b]

\* The slots of the stream table that hold an open stream.
OpenStreams(table) ==
    { i \in StreamIds : table[i] # GUAC_CLIENT_CLOSED_STREAM_INDEX }

\* C13: alloc_stream returns no stream exactly when as many streams are
\* active as the table holds; otherwise it returns a stream that was not
\* active, with an index inside the table.
C13_ExhaustedExactlyAtMax ==
    [][ result'.op \in {"alloc_stream", "alloc_stream_NULL"} =>
            /\ result'.op = "alloc_stream_NULL" <=>
                   Cardinality(OpenStreams(output_streams)) =
                       GUAC_CLIENT_MAX_STREAMS
            /\ result'.op = "alloc_stream_NULL" =>
                   output_streams' = output_streams
            /\ result'.op = "alloc_stream" =>
                   /\ result'.value >= 0
                   /\ result'.value < GUAC_CLIENT_MAX_STREAMS
                   /\ result'.value \notin OpenStreams(output_streams)
                   /\ OpenStreams(output_streams') =
                          OpenStreams(output_streams) \cup {result'.value}
                   /\ output_streams'[result'.value] = result'.value
                   /\ stream_ub' = "none" ]_vars

\* C13 witness: with every slot of the table open, alloc_stream returned no
\* stream.
C13_Witness ==
    /\ result.op = "alloc_stream_NULL"
    /\ OpenStreams(output_streams) = StreamIds

\* The values of the sequence q.
Range(q) == { q[i] : i \in 1..Len(q) }

Quiescent ==
    /\ users_lock = NULL
    /\ \A t \in ThreadIds : thread[t].pc = "idle"

\* The user list is a doubly-linked chain of exactly the users in held.
ValidChain(c, um, held) ==
    LET L == UserList(c, um) IN
    /\ Len(L) = Cardinality(held)
    /\ { L[i] : i \in 1..Len(L) } = held
    /\ \A i \in 1..Len(L) :
           /\ um[L[i]].allocated
           /\ um[L[i]].prev = (IF i = 1 THEN NULL ELSE L[i - 1])
           /\ um[L[i]].next = (IF i = Len(L) THEN NULL ELSE L[i + 1])

\* The head pointer or a prev or next link changes in the step.
LinkChanges ==
    \/ client'.users # client.users
    \/ \E u \in UserIds : \/ user'[u].prev # user[u].prev
                          \/ user'[u].next # user[u].next

\* C16: with threads adding users and removing distinct users in any
\* interleaving, a step that changes the head pointer or a prev or next link
\* is a step of the thread that holds the list lock, and whenever all calls
\* have completed the list is a valid doubly-linked chain of exactly the
\* users added and not removed.
C16_LinksChangeUnderLock ==
    [][ /\ LinkChanges =>
               /\ users_lock # NULL
               /\ users_lock' = users_lock
               /\ thread'[users_lock] # thread[users_lock]
               /\ \A t \in ThreadIds \ {users_lock} :
                      thread'[t] = thread[t]
        /\ Quiescent' => ValidChain(client', user', attached') ]_vars

\* C16 witness: a thread has linked a user in as the head and still holds
\* the lock, while another thread, removing the user behind it, waits for
\* the lock.
C16_Witness ==
    \E t1 \in ThreadIds, t2 \in ThreadIds :
        /\ users_lock = t1
        /\ thread[t1].pc = "add_unlock"
        /\ client.users = thread[t1].user
        /\ thread[t2].pc = "rm_lock"
        /\ user[client.users].next = thread[t2].user

\* C17: every user is torn down at most once, also when a thread removes
\* it while guac_client_free drains the list: its leave handler runs at most
\* once, it is unlinked at most once, its socket and record are released at
\* most once, and no thread touches it after its release.
C17_TornDownOnce ==
    /\ ~faulted
    /\ \A u \in UserIds : /\ torn[u].leave <= 1
                           /\ torn[u].unlink <= 1
                           /\ torn[u].release <= 1

\* C18: with threads allocating and freeing streams in any interleaving, no
\* more streams are active than the table has slots, and every stream
\* returned has its index, and so its slot, inside the table.
C18_WithinTable ==
    /\ pools.stream.active <= GUAC_CLIENT_MAX_STREAMS
    /\ result.op = "alloc_stream" => result.value \in StreamIds
    /\ stream_ub = "none"

====
